---- MODULE Spec2Model ----
(***************************************************************************)
(* Model of the `incoming` crate (src/src/lib.rs): the IntoIncoming trait  *)
(* and its two implementations, for tokio::net::TcpListener and for        *)
(* tokio::net::UnixListener.  Each implementation moves the listener into  *)
(* a futures_util::stream::poll_fn closure; the closure calls the          *)
(* listener's accept primitive once per poll and wraps the outcome.        *)
(*                                                                         *)
(* The two adapters are run side by side, each on its own listener, and    *)
(* both listeners see the same events and both streams the same consumer   *)
(* operations, so that the adapters can be compared poll by poll.          *)
(***************************************************************************)
EXTENDS Naturals, Sequences

\* ---------------------------------------------------------------- bounds
MaxConns == 2
MaxErrs == 2
MaxSpurious == 1

Kinds == {"tcp", "unix"}
PeerAddrs == {"peerA", "peerB"}
Errors == {"EMFILE", "ECONNABORTED"}
NoFault == "none"

VARIABLES
    listener,   \* per kind: the tokio listener and the OS socket behind it
    stream,     \* per kind: "unconverted" | "open" | "dropped"
    task,       \* per kind: the consumer task, "runnable" | "parked" | "finished"
    last,       \* per kind: what the latest poll_next returned
    yielded,    \* per kind: the elements the stream has yielded, in order
    polls,      \* per kind: number of poll_next calls made by the consumer
    arrived,    \* connection ids in the order the OS reported them ready
    nErrs,      \* failures injected into the accept primitive so far
    nSpurious   \* spurious wake-ups of the consumer so far

vars == <<listener, stream, task, last, yielded, polls, arrived, nErrs, nSpurious>>

\* ------------------------------------------------- std values (Poll, Result, Option)
Pending == [tag |-> "Pending"]
\* No call has been made yet.
NotYet == [tag |-> "NotYet"]
Ready(v) == [tag |-> "Ready", val |-> v]
Ok(v) == [ok |-> TRUE, val |-> v]
Err(e) == [ok |-> FALSE, err |-> e]
Some(v) == [some |-> TRUE, val |-> v]

\* An accepted stream (TcpStream / UnixStream), named by its connection id.
Conn(c) == [fd |-> c]
\* The (stream, peer address) tuple the listener's accept returns.
Pair(st, a) == [st |-> st, addr |-> a]

\* Result::map with |(st, _)| st: the stream of an Ok pair, an Err untouched.
MapFst(r) == IF r.ok THEN Ok(r.val.st) ELSE r

\* ------------------------------------------------- the accept primitive
\* A freshly bound listener: nothing queued, no failure pending, no waker.
NewListener ==
    [state |-> "listening", queue |-> <<>>, fault |-> NoFault,
     waker |-> FALSE, calls |-> 0, ret |-> NotYet, log |-> <<>>]

\* TcpListener::poll_accept / UnixListener::poll_accept as the closures use it:
\* one non-blocking accept attempt.  A pending failure is reported as Err and
\* leaves the queue alone; otherwise the oldest queued (stream, peer address)
\* pair is taken; otherwise the task's waker is registered and the call is
\* Pending.  `calls` counts the attempts, `ret` is what the latest attempt
\* returned, `log` lists the streams accepted and the errors reported.
poll_accept(l) ==
    IF l.fault # NoFault
    THEN [out |-> Ready(Err(l.fault)),
          l |-> [l EXCEPT !.fault = NoFault, !.calls = @ + 1,
                          !.ret = Ready(Err(l.fault)),
                          !.log = Append(@, Err(l.fault))]]
    ELSE IF l.queue # <<>>
    THEN [out |-> Ready(Ok(Head(l.queue))),
          l |-> [l EXCEPT !.queue = Tail(@), !.calls = @ + 1,
                          !.ret = Ready(Ok(Head(l.queue))),
                          !.log = Append(@, Ok(Head(l.queue).st))]]
    ELSE [out |-> Pending,
          l |-> [l EXCEPT !.waker = TRUE, !.calls = @ + 1, !.ret = Pending]]

\* ------------------------------------------------- faulty variants
\* Each is one of the definitions below with a plausible slip in it; each
\* breaks one of the properties at the end of the module.

\* Poll::map with the wrapper both adapters amount to.
WrapAll(p) == IF p.tag = "Ready" THEN Ready(Some(MapFst(p.val))) ELSE Pending

\* Option::None as a stream item: end of stream.  The code never builds it.
None == [some |-> FALSE]

\* into_incoming that accepts eagerly, before the consumer polls.
TcpIntoIncomingEager(l) == poll_accept(l).l

\* A wrapper that ends the stream on the first error.
TcpWrapEndOnErr(st) ==
    IF st.ok THEN Some(MapFst(st)) ELSE None

\* A wrapper that forgets to discard the peer address.
TcpWrapKeepPair(st) == Some(st)

\* A closure that keeps accepting while connections are ready and yields
\* only the latest one.
TcpPollFnBatch(l) ==
    LET r1 == poll_accept(l)
        r2 == poll_accept(r1.l)
        r  == IF r1.out.tag = "Ready" /\ r1.out.val.ok /\ r1.l.queue # <<>>
              THEN r2 ELSE r1
    IN  [res |-> WrapAll(r.out),
         l |-> r.l]

\* A closure that polls the fresh Incoming with a context of its own
\* instead of cx: the consumer's waker is not registered by the poll.
UnixPollFnNoCx(l) ==
    LET r == poll_accept(l)
    IN  [res |-> WrapAll(r.out),
         l |-> [r.l EXCEPT !.waker = l.waker]]

\* A wrapper that reports an error as end-of-stream.
UnixWrapEndOnErr(st) == IF st.ok THEN Some(st) ELSE None

\* A closure that retries the accept inside the poll when it fails.
UnixPollFnRetry(l) ==
    LET r1 == poll_accept(l)
        r  == IF r1.out.tag = "Ready" /\ ~r1.out.val.ok THEN poll_accept(r1.l) ELSE r1
    IN  [res |-> WrapAll(r.out),
         l |-> r.l]

\* A closure that hands back the newest ready connection instead of the
\* oldest when several are queued.
UnixPollFnNewest(l) ==
    LET r1 == poll_accept(l)
        n  == Len(l.queue)
        sw == [l EXCEPT !.queue = <<l.queue[n]>> \o SubSeq(l.queue, 1, n - 1)]
        r  == IF l.fault = NoFault /\ n > 1 THEN poll_accept(sw) ELSE r1
    IN  [res |-> WrapAll(r.out),
         l |-> r.l]

\* A drop that leaks the listener (the socket stays open).
DropStreamLeak(l) == l

\* ------------------------------------------------- TcpListener adapter
\* into_incoming(mut self): the listener is moved into the closure; nothing
\* is called on it.
TcpIntoIncoming(l) == l

\* |st| Some(st.map(|(st, _)| st)): keep the stream, discard the peer address.
TcpWrap(st) == Some(MapFst(st))

\* move |cx| self.poll_accept(cx).map(|st| Some(st.map(|(st, _)| st)))
TcpPollFn(l) ==
    LET r == poll_accept(l)
    IN  [res |-> IF r.out.tag = "Ready" THEN Ready(TcpWrap(r.out.val)) ELSE Pending,
         l |-> r.l]

\* ------------------------------------------------- UnixListener adapter
UnixIntoIncoming(l) == l

\* self.incoming(): a fresh Incoming borrowing the listener mutably.
incoming(l) == [inner |-> l]

\* Incoming::poll_accept: the listener's poll_accept with the peer address
\* dropped; Pending and Err pass through.  The borrow's effects on the
\* listener are the listener's.
IncomingPollAccept(inc) ==
    LET r == poll_accept(inc.inner)
    IN  [out |-> IF r.out.tag = "Ready" THEN Ready(MapFst(r.out.val)) ELSE Pending,
         inc |-> [inner |-> r.l]]

\* |st| Some(st)
UnixWrap(st) == Some(st)

\* move |cx| { let mut inc = self.incoming();
\*             Pin::new(&mut inc).poll_accept(cx).map(|st| Some(st)) }
UnixPollFn(l) ==
    LET r == IncomingPollAccept(incoming(l))
    IN  [res |-> IF r.out.tag = "Ready" THEN Ready(UnixWrap(r.out.val)) ELSE Pending,
         l |-> r.inc.inner]

\* ------------------------------------------------- per-kind dispatch
IntoIncomingOf(k, l) == IF k = "tcp" THEN TcpIntoIncoming(l) ELSE UnixIntoIncoming(l)
PollFnOf(k, l) == IF k = "tcp" THEN TcpPollFn(l) ELSE UnixPollFn(l)

\* Dropping the boxed stream drops the closure and with it the captured
\* listener: the socket is closed, its reactor registration (the waker) is
\* removed and the OS discards the backlog.
DropStream(l) == [l EXCEPT !.state = "closed", !.waker = FALSE, !.queue = <<>>]

\* A bind to the listener's address succeeds only once the socket is closed.
BindResult(l) == IF l.state = "closed" THEN "ok" ELSE "EADDRINUSE"

\* The consumer after a poll: Pending parks it until woken, an element
\* leaves it runnable, end-of-stream finishes it.
TaskAfter(res) ==
    IF res.tag = "Pending" THEN "parked"
    ELSE IF res.val.some THEN "runnable" ELSE "finished"

YieldedAfter(ys, res) ==
    IF res.tag = "Ready" /\ res.val.some THEN Append(ys, res.val.val) ELSE ys

\* A readiness event on the listener wakes the registered task.
WakeTask(l, t) == IF l.waker /\ t = "parked" THEN "runnable" ELSE t

\* ------------------------------------------------- initial state
Init ==
    /\ listener = [k \in Kinds |-> NewListener]
    /\ stream = [k \in Kinds |-> "unconverted"]
    /\ task = [k \in Kinds |-> "runnable"]
    /\ last = [k \in Kinds |-> NotYet]
    /\ yielded = [k \in Kinds |-> <<>>]
    /\ polls = [k \in Kinds |-> 0]
    /\ arrived = <<>>
    /\ nErrs = 0
    /\ nSpurious = 0

\* ------------------------------------------------- environment actions
Listening == \A k \in Kinds : listener[k].state = "listening"

\* A client connects: the OS queues the connection with peer address a.
\* Connections are named by the order in which the OS reports them ready.
Arrive(a) ==
    /\ Listening
    /\ Len(arrived) < MaxConns
    /\ LET c == Len(arrived) + 1
       IN  /\ arrived' = Append(arrived, c)
           /\ listener' = [k \in Kinds |->
                [listener[k] EXCEPT !.queue = Append(@, Pair(Conn(c), a)), !.waker = FALSE]]
    /\ task' = [k \in Kinds |-> WakeTask(listener[k], task[k])]
    /\ UNCHANGED <<stream, last, yielded, polls, nErrs, nSpurious>>

\* The next accept attempt will fail with e (resource exhaustion, an aborted
\* connection, a test double).
Fail(e) ==
    /\ Listening
    /\ nErrs < MaxErrs
    /\ \A k \in Kinds : listener[k].fault = NoFault
    /\ nErrs' = nErrs + 1
    /\ listener' = [k \in Kinds |->
            [listener[k] EXCEPT !.fault = e, !.waker = FALSE]]
    /\ task' = [k \in Kinds |-> WakeTask(listener[k], task[k])]
    /\ UNCHANGED <<stream, last, yielded, polls, arrived, nSpurious>>

\* The executor polls a parked consumer without a readiness event.
SpuriousWake ==
    /\ nSpurious < MaxSpurious
    /\ \A k \in Kinds : stream[k] = "open" /\ task[k] = "parked"
    /\ nSpurious' = nSpurious + 1
    /\ task' = [k \in Kinds |-> "runnable"]
    /\ UNCHANGED <<listener, stream, last, yielded, polls, arrived, nErrs>>

\* ------------------------------------------------- program actions
\* listener.into_incoming()
IntoIncoming ==
    /\ \A k \in Kinds : stream[k] = "unconverted"
    /\ stream' = [k \in Kinds |-> "open"]
    /\ listener' = [k \in Kinds |-> IntoIncomingOf(k, listener[k])]
    /\ UNCHANGED <<task, last, yielded, polls, arrived, nErrs, nSpurious>>

\* The consumer drives the stream once: PollFn::poll_next calls the closure.
PollNext ==
    /\ \A k \in Kinds : stream[k] = "open" /\ task[k] = "runnable"
    /\ LET r == [k \in Kinds |-> PollFnOf(k, listener[k])]
       IN  /\ listener' = [k \in Kinds |-> r[k].l]
           /\ last' = [k \in Kinds |-> r[k].res]
           /\ yielded' = [k \in Kinds |-> YieldedAfter(yielded[k], r[k].res)]
           /\ task' = [k \in Kinds |-> TaskAfter(r[k].res)]
    /\ polls' = [k \in Kinds |-> polls[k] + 1]
    /\ UNCHANGED <<stream, arrived, nErrs, nSpurious>>

\* The consumer drops the stream.
Drop ==
    /\ \A k \in Kinds : stream[k] = "open"
    /\ stream' = [k \in Kinds |-> "dropped"]
    /\ listener' = [k \in Kinds |-> DropStream(listener[k])]
    /\ UNCHANGED <<task, last, yielded, polls, arrived, nErrs, nSpurious>>

Next ==
    \/ \E a \in PeerAddrs : Arrive(a)
    \/ \E e \in Errors : Fail(e)
    \/ SpuriousWake
    \/ IntoIncoming
    \/ PollNext
    \/ Drop

Spec == Init /\ [][Next]_vars

\* A woken consumer is eventually polled by the executor.
LiveSpec == Init /\ [][Next]_vars /\ WF_vars(PollNext)

\* ------------------------------------------------- vocabulary of the properties
IsErr(r) == ~r.ok
IsOk(r) == r.ok
ErrsOf(seq) == SelectSeq(seq, IsErr)
OksOf(seq) == SelectSeq(seq, IsOk)

\* What poll_next must return for what the accept primitive returned.
Expected(ret) ==
    IF ret.tag = "Ready"
    THEN Ready(Some(IF ret.val.ok THEN Ok(ret.val.val.st) ELSE Err(ret.val.err)))
    ELSE ret

\* The step is a poll of the k stream.
PollStep(k) == polls'[k] = polls[k] + 1

Open(k) == stream[k] = "open"
Queued(k) == [i \in 1..Len(listener[k].queue) |-> listener[k].queue[i].st.fd]

\* ------------------------------------------------- C1
\* What a poll may have returned, and what it leaves the consumer in.
C1_NeverEndsInv ==
    \A k \in Kinds :
        /\ last[k].tag = "Ready" => last[k].val.some
        /\ task[k] # "finished"
        /\ (Open(k) /\ last[k].tag = "Ready") => task[k] = "runnable"

\* C1: while the stream is not dropped a poll returns Pending, Some(Ok) or
\* Some(Err) and never end-of-stream; the consumer is never finished; after
\* an Err the stream is still drivable and the poll that follows an Err
\* calls the accept primitive again.
C1_NeverEnds ==
    /\ []C1_NeverEndsInv
    /\ [][\A k \in Kinds :
            (PollStep(k) /\ last[k].tag = "Ready" /\ ~last[k].val.val.ok)
                => listener'[k].calls = listener[k].calls + 1]_vars

\* Two errors were yielded and a later poll yielded a connection.
C1_Witness ==
    \A k \in Kinds :
        /\ Len(yielded[k]) = 3
        /\ ~yielded[k][1].ok /\ ~yielded[k][2].ok /\ yielded[k][3].ok
        /\ Open(k)

\* ------------------------------------------------- C2
\* C2: the Err elements yielded are exactly the failures the accept
\* primitive reported, same values, same order, one element each; every
\* injected failure is either still pending in the primitive or has been
\* yielded once; a poll makes one accept attempt (no retry); after an Err
\* the stream stays drivable.
C2_ErrorForwarding ==
    \A k \in Kinds :
        /\ ErrsOf(yielded[k]) = ErrsOf(listener[k].log)
        /\ Len(ErrsOf(yielded[k])) + (IF listener[k].fault # NoFault THEN 1 ELSE 0) = nErrs
        /\ listener[k].calls = polls[k]
        /\ (Open(k) /\ last[k].tag = "Ready" /\ last[k].val.some /\ ~last[k].val.val.ok)
                => task[k] = "runnable"

\* The same failure was reported twice and yielded twice.
C2_Witness ==
    \A k \in Kinds :
        /\ ErrsOf(yielded[k]) = <<Err("EMFILE"), Err("EMFILE")>>
        /\ Open(k) /\ task[k] = "runnable"

\* ------------------------------------------------- C3
\* C3: the elements yielded are, in order and one for one, the streams and
\* errors the accept primitive returned, and the connections among them
\* come in the order the OS reported them ready.
C3_NoReordering ==
    \A k \in Kinds :
        /\ yielded[k] = listener[k].log
        /\ LET oks == OksOf(yielded[k])
           IN  /\ Len(oks) <= Len(arrived)
               /\ \A i \in 1..Len(oks) :
                    i <= Len(arrived) => oks[i] = Ok(Conn(arrived[i]))

\* Two connections were queued before the first poll and were yielded in
\* the order of their arrival, with an error between them.
C3_Witness ==
    \A k \in Kinds :
        /\ yielded[k] = <<Ok(Conn(1)), Err("EMFILE"), Ok(Conn(2))>>
        /\ polls[k] = 3

\* ------------------------------------------------- C4
\* C4 as stated: a poll of a stream whose listener has a connection queued
\* yields exactly one Ok element, the oldest queued connection, and removes
\* exactly that connection from the queue.
C4_Original ==
    [][\A k \in Kinds :
        (PollStep(k) /\ listener[k].queue # <<>>)
            => /\ yielded'[k] = Append(yielded[k], Ok(Head(listener[k].queue).st))
               /\ listener'[k].queue = Tail(listener[k].queue)]_vars

\* Every connection the OS has reported ready has been yielded by k.
AllYielded(k) ==
    OksOf(yielded[k]) = [i \in 1..Len(arrived) |-> Ok(Conn(arrived[i]))]

\* C4 amended: a poll of a stream whose listener has a connection queued
\* yields exactly one element: if the accept primitive does not fail on that
\* poll, Ok of the oldest queued connection, which is removed from the
\* queue; if it fails, the Err, and the queue is left alone.  With a
\* consumer that is polled whenever it is runnable and a primitive that
\* fails finitely often, an open stream again and again reaches a state
\* where every connection queued so far has been yielded: no connection
\* stays queued forever unless the stream is dropped.
C4_Liveness ==
    /\ [][\A k \in Kinds :
            (PollStep(k) /\ listener[k].queue # <<>>)
                => IF listener[k].fault = NoFault
                   THEN /\ yielded'[k] = Append(yielded[k], Ok(Head(listener[k].queue).st))
                        /\ listener'[k].queue = Tail(listener[k].queue)
                   ELSE /\ yielded'[k] = Append(yielded[k], Err(listener[k].fault))
                        /\ listener'[k].queue = listener[k].queue]_vars
    /\ []<>(\A k \in Kinds : Open(k) => AllYielded(k))

\* A poll with two connections queued yielded the first and left the second.
C4_Witness ==
    \A k \in Kinds :
        /\ last[k] = Ready(Some(Ok(Conn(1))))
        /\ yielded[k] = <<Ok(Conn(1))>>
        /\ Queued(k) = <<2>>
        /\ polls[k] = 1

\* ------------------------------------------------- C5
\* No accept attempt without a poll.
C5_LazyInv ==
    \A k \in Kinds :
        /\ listener[k].calls = polls[k]
        /\ (stream[k] = "unconverted" \/ polls[k] = 0)
                => (listener[k].calls = 0 /\ listener[k].log = <<>> /\ yielded[k] = <<>>)

\* C5: conversion calls nothing on the listener and leaves its queue as it
\* was; no accept attempt is made before the first poll; a step that is not
\* a poll makes no accept attempt and yields nothing; the number of accept
\* attempts always equals the number of polls.
C5_Lazy ==
    /\ []C5_LazyInv
    /\ [][\A k \in Kinds :
            /\ (stream[k] = "unconverted" /\ stream'[k] = "open")
                    => listener'[k] = listener[k]
            /\ polls'[k] = polls[k]
                    => /\ listener'[k].calls = listener[k].calls
                       /\ listener'[k].log = listener[k].log
                       /\ yielded'[k] = yielded[k]]_vars

\* The stream exists, connections are queued, and nothing was accepted.
C5_Witness ==
    \A k \in Kinds :
        /\ Open(k) /\ polls[k] = 0
        /\ Len(listener[k].queue) = 2
        /\ listener[k].calls = 0

\* ------------------------------------------------- C6
\* A dropped stream has released everything.
C6_DropInv ==
    \A k \in Kinds :
        /\ Open(k) => ENABLED Drop
        /\ stream[k] = "dropped"
                => /\ listener[k].state = "closed"
                   /\ ~listener[k].waker
                   /\ Len(listener[k].log) = Len(yielded[k])
                   /\ BindResult(listener[k]) = "ok"

\* C6: an open stream can be dropped in any state; once dropped, the
\* listener is closed, no waker is registered, every accepted outcome has
\* been delivered, a bind to the address succeeds, and the state is
\* terminal: no later accept attempt, poll or element.
C6_Cancellation ==
    /\ []C6_DropInv
    /\ [][\A k \in Kinds :
            stream[k] = "dropped"
                => /\ stream'[k] = "dropped"
                   /\ listener'[k] = listener[k]
                   /\ polls'[k] = polls[k]
                   /\ yielded'[k] = yielded[k]]_vars

\* The stream was dropped while its only poll was suspended.
C6_Witness ==
    \A k \in Kinds :
        /\ stream[k] = "dropped"
        /\ last[k] = Pending /\ polls[k] = 1 /\ task[k] = "parked"

\* ------------------------------------------------- C7
\* A parked consumer is registered and has nothing waiting for it.
C7_ParkedInv ==
    \A k \in Kinds :
        (Open(k) /\ task[k] = "parked")
            => /\ listener[k].waker
               /\ listener[k].queue = <<>>
               /\ listener[k].fault = NoFault
               /\ last[k] = Pending

C8_NoBufferInv ==
    \A k \in Kinds :
        /\ Len(yielded[k]) = Len(listener[k].log)
        /\ last[k] = Expected(listener[k].ret)

\* C8: between polls nothing obtained from the accept primitive is held
\* back: there are as many elements yielded as non-pending outcomes
\* obtained, and what the latest poll returned is what the latest accept
\* attempt returned; each poll makes exactly one accept attempt and obtains
\* at most one outcome, which is the element it hands over.
C8_NoBuffer ==
    /\ []C8_NoBufferInv
    /\ [][\A k \in Kinds :
            PollStep(k)
                => /\ listener'[k].calls = listener[k].calls + 1
                   /\ Len(listener'[k].log) <= Len(listener[k].log) + 1
                   /\ Len(yielded'[k]) - Len(yielded[k])
                        = Len(listener'[k].log) - Len(listener[k].log)]_vars

\* Two connections were queued and one poll has handed over exactly one.
C8_Witness ==
    \A k \in Kinds :
        /\ Len(yielded[k]) = 1 /\ Len(listener[k].log) = 1
        /\ Len(listener[k].queue) = 1
        /\ polls[k] = 1

\* ------------------------------------------------- C9
\* C9: whenever the latest accept attempt returned a (stream, peer address)
\* pair, the poll returned Ok of that stream alone and that is the element
\* yielded last: the element has no peer address in it and is the same
\* whatever the peer address was.
C9_DiscardsPeerAddr ==
    \A k \in Kinds :
        (listener[k].ret.tag = "Ready" /\ listener[k].ret.val.ok)
            => /\ last[k] = Ready(Some(Ok(listener[k].ret.val.val.st)))
               /\ DOMAIN last[k].val.val.val = {"fd"}
               /\ \A a \in PeerAddrs :
                    last[k] = Expected(Ready(Ok(Pair(listener[k].ret.val.val.st, a))))
               /\ Len(yielded[k]) > 0
               /\ yielded[k][Len(yielded[k])] = Ok(listener[k].ret.val.val.st)

\* The accept primitive returned connection 2 with peer address peerB after
\* connection 1, and both were yielded without an address.
C9_Witness ==
    \A k \in Kinds :
        /\ listener[k].ret = Ready(Ok(Pair(Conn(2), "peerB")))
        /\ yielded[k] = <<Ok(Conn(1)), Ok(Conn(2))>>

\* ------------------------------------------------- C10
\* C10: polled together on listeners that behave alike, the TCP and the
\* Unix stream return the same result on every poll, have yielded the same
\* elements, leave the consumer in the same state and have used their
\* listeners alike.
C10_SameInterface ==
    /\ last["tcp"] = last["unix"]
    /\ yielded["tcp"] = yielded["unix"]
    /\ task["tcp"] = task["unix"]
    /\ listener["tcp"] = listener["unix"]

\* The same error twice in a row, then a connection, on both streams.
C10_Witness ==
    /\ yielded["tcp"] = <<Err("ECONNABORTED"), Err("ECONNABORTED"), Ok(Conn(1))>>
    /\ yielded["unix"] = <<Err("ECONNABORTED"), Err("ECONNABORTED"), Ok(Conn(1))>>
    /\ last["unix"] = Pending

====
